---- MODULE Spec2Model ----
(***************************************************************************)
(* Model of rootpy/tree/filtering.py: the cut-flow accounting framework     *)
(* (Filter, EventFilter, ObjectFilter and the FilterList aggregators).      *)
(*                                                                          *)
(* A filter object is a record of its attributes.  A raw state mapping (the *)
(* dict produced by __getstate__) is a record tagged cls = "dict".          *)
(* Python's None is the string "None"; a raised exception is a result       *)
(* record [ok |-> FALSE, err |-> <exception class>].                        *)
(***************************************************************************)
EXTENDS Integers, Sequences, FiniteSets, TLC

VARIABLES
    f,          \* a Filter driven directly through passed / failed
    calls,      \* history: <<number of passed calls, number of failed calls>> on f
    negSeen,    \* history: some count function of f has returned a negative weight
    efl,        \* an EventFilterList
    abstains,   \* history: how many events each filter of efl has abstained on
    ofl,        \* an ObjectFilterList
    left,       \* operands and result of the last Filter.add
    right,
    sum,
    list1,      \* operands and result of the last FilterList.merge
    list2,
    merged,
    ref,        \* an EventFilterList processing every event in a single run
    lcls,       \* the class of list1 when the driver inserts elements into it
    driver,     \* the program driving the module: which objects it constructed
    nev,        \* number of events the driver has fed to its list so far
    last        \* record of the last call made: its arguments and return value

vars == <<f, calls, negSeen, efl, abstains, ofl, left, right, sum, list1, list2,
          merged, ref, lcls, driver, nev, last>>

(***************************************************************************)
(* Bounds of the model.                                                     *)
(***************************************************************************)
MaxCalls == 4       \* passed / failed calls made on one Filter
MaxEvents == 2      \* events fed to one filter list
MaxWeight == 1      \* count functions return weights in -MaxWeight..MaxWeight
MaxLen == 3         \* length of a FilterList and of an EventFilterList
MaxStages == 2      \* length of an ObjectFilterList
MaxObj == 2         \* the objects of a collection are 1..MaxObj
MaxCount == 2       \* counters of the filters handed to add and merge

None == "None"
Labels == {"w", "n"}            \* count-function labels
Names == {"A", "B"}             \* filter names
DetailKeys == {"x", "y"}        \* keys of the details mapping
Weights == (0 - MaxWeight)..MaxWeight
Accept == "accept"              \* passes() returned True
Reject == "reject"              \* passes() returned False
Abstain == "abstain"            \* passes() returned None
Outcomes == {Accept, Reject, Abstain}

EmptyMap == [k \in {} |-> 0]

Raise(e) == [ok |-> FALSE, err |-> e]
Return(v) == [ok |-> TRUE, val |-> v]

(***************************************************************************)
(* Filter.__init__.  count_funcs is the set of registered labels (empty for *)
(* None and for {} alike); the count function registered under label k      *)
(* returns event.cnt[k].  The loop over the labels rebinds the parameter `name`, so *)
(* after a non-empty loop `name` is the label iterated last: lastKey, any   *)
(* of the labels (dict order).  hooks is the number of hooks (0 for None).  *)
(* pred identifies the subclass's override of passes / filtered and         *)
(* count_events is ObjectFilter's attribute; both are None on a base Filter.*)
(***************************************************************************)
FilterInit(cls, hooks, passthrough, name, count_funcs, lastKey) ==
    LET cf == count_funcs
        nm == IF cf # {} THEN lastKey ELSE name
    IN  [cls |-> cls,
         total |-> 0,
         passing |-> 0,
         count_funcs_total |-> [k \in cf |-> 0],
         count_funcs_passing |-> [k \in cf |-> 0],
         count_funcs |-> cf,
         details |-> EmptyMap,
         name |-> IF nm = None THEN cls ELSE nm,
         hooks |-> hooks,
         passthrough |-> passthrough,
         was_passed |-> FALSE,
         count_events |-> None,
         pred |-> None]

\* Filter(): the constructor with every argument defaulted
NewFilter == FilterInit("Filter", 0, FALSE, None, {}, None)

(***************************************************************************)
(* Filter.passed and Filter.failed                                          *)
(***************************************************************************)
\* faulty variant of passed: the passing counter is not incremented
passed_no_passing(self, event) ==
    [self EXCEPT
        !.total = @ + 1,
        !.count_funcs_total =
            [k \in DOMAIN @ |-> IF k \in self.count_funcs THEN @[k] + event.cnt[k] ELSE @[k]],
        !.count_funcs_passing =
            [k \in DOMAIN @ |-> IF k \in self.count_funcs THEN @[k] + event.cnt[k] ELSE @[k]],
        !.was_passed = TRUE]

\* faulty variant of passed: the weight goes to the total tally only
passed_counts_total_only(self, event) ==
    [self EXCEPT
        !.total = @ + 1,
        !.passing = @ + 1,
        !.count_funcs_total =
            [k \in DOMAIN @ |-> IF k \in self.count_funcs THEN @[k] + event.cnt[k] ELSE @[k]],
        !.was_passed = TRUE]

passed(self, event) ==
    [self EXCEPT
        !.total = @ + 1,
        !.passing = @ + 1,
        !.count_funcs_total =
            [k \in DOMAIN @ |-> IF k \in self.count_funcs THEN @[k] + event.cnt[k] ELSE @[k]],
        !.count_funcs_passing =
            [k \in DOMAIN @ |-> IF k \in self.count_funcs THEN @[k] + event.cnt[k] ELSE @[k]],
        !.was_passed = TRUE]

\* faulty variant of failed: the weight goes to the passing tally, not the total
failed_counts_passing(self, event) ==
    [self EXCEPT
        !.total = @ + 1,
        !.count_funcs_passing =
            [k \in DOMAIN @ |-> IF k \in self.count_funcs THEN @[k] + event.cnt[k] ELSE @[k]],
        !.was_passed = FALSE]

failed(self, event) ==
    [self EXCEPT
        !.total = @ + 1,
        !.count_funcs_total =
            [k \in DOMAIN @ |-> IF k \in self.count_funcs THEN @[k] + event.cnt[k] ELSE @[k]],
        !.was_passed = FALSE]

(***************************************************************************)
(* Filter.__getstate__ and Filter.__setstate__.  The state mapping shares   *)
(* the values of the six attributes; __setstate__ assigns exactly those six *)
(* and leaves every other attribute of the object as it was.                *)
(***************************************************************************)
getstate(self) ==
    [cls |-> "dict",
     name |-> self.name,
     total |-> self.total,
     passing |-> self.passing,
     details |-> self.details,
     count_funcs_total |-> self.count_funcs_total,
     count_funcs_passing |-> self.count_funcs_passing]

\* faulty variant of __setstate__: the weighted tallies are not restored
setstate_without_tallies(self, state) ==
    [self EXCEPT
        !.name = state.name,
        !.total = state.total,
        !.passing = state.passing,
        !.details = state.details]

setstate(self, state) ==
    [self EXCEPT
        !.name = state.name,
        !.total = state.total,
        !.passing = state.passing,
        !.details = state.details,
        !.count_funcs_total = state.count_funcs_total,
        !.count_funcs_passing = state.count_funcs_passing]

(***************************************************************************)
(* Filter.add (and __add__, which delegates to it).  The details of the     *)
(* result are built by iterating over left.details' keys and indexing both  *)
(* mappings: a key of left missing from right raises KeyError, a key only   *)
(* in right is never looked at.                                             *)
(***************************************************************************)
\* faulty variant of add: passing is taken from left alone
add_keeps_left_passing(l, r) ==
    IF l.name # r.name THEN Raise("ValueError")
    ELSE IF \E d \in DOMAIN l.details : d \notin DOMAIN r.details THEN Raise("KeyError")
    ELSE Return([NewFilter EXCEPT
                    !.name = l.name,
                    !.total = l.total + r.total,
                    !.passing = l.passing,
                    !.details = [d \in DOMAIN l.details |-> l.details[d] + r.details[d]]])

add(l, r) ==
    IF l.name # r.name THEN Raise("ValueError")
    ELSE IF \E d \in DOMAIN l.details : d \notin DOMAIN r.details THEN Raise("KeyError")
    ELSE Return([NewFilter EXCEPT
                    !.name = l.name,
                    !.total = l.total + r.total,
                    !.passing = l.passing + r.passing,
                    !.details = [d \in DOMAIN l.details |-> l.details[d] + r.details[d]]])

\* add applied to the results of two expressions: an exception raised by an
\* operand expression is the outcome of the whole expression
add_results(l, r) ==
    IF ~l.ok THEN l
    ELSE IF ~r.ok THEN r
    ELSE add(l.val, r.val)

(***************************************************************************)
(* EventFilter.  passes(event) is the subclass's predicate: the event       *)
(* carries, for every predicate, the outcome that predicate gives on it.    *)
(* A call returns the updated filter, the value returned and the trace of   *)
(* the calls it made (passes, hook, passed, failed), in order.              *)
(***************************************************************************)
EventFilterInit(pred, hooks, passthrough, name, count_funcs, lastKey) ==
    [FilterInit("EventFilter", hooks, passthrough, name, count_funcs, lastKey)
        EXCEPT !.pred = pred]

passes(self, event) == event.out[self.pred]

RunHooks(self) == [h \in 1..self.hooks |-> "hook"]

\* faulty variant of EventFilter.__call__: None is treated as False and counted
EventFilterCall_none_is_false(self, event) ==
    IF self.passthrough
    THEN [self |-> passed(self, event), ret |-> TRUE,
          trace |-> RunHooks(self) \o <<"passed">>]
    ELSE IF passes(self, event) = Accept
    THEN [self |-> passed(self, event), ret |-> TRUE,
          trace |-> <<"passes">> \o RunHooks(self) \o <<"passed">>]
    ELSE [self |-> failed(self, event), ret |-> FALSE,
          trace |-> <<"passes", "failed">>]

\* faulty variant of EventFilter.__call__: a rejected event is recorded as
\* failed but the call returns True
EventFilterCall_reject_returns_true(self, event) ==
    IF self.passthrough
    THEN [self |-> passed(self, event), ret |-> TRUE,
          trace |-> RunHooks(self) \o <<"passed">>]
    ELSE LET _passes == passes(self, event)
         IN  IF _passes = Abstain
             THEN [self |-> self, ret |-> FALSE, trace |-> <<"passes">>]
             ELSE IF _passes = Accept
             THEN [self |-> passed(self, event), ret |-> TRUE,
                   trace |-> <<"passes">> \o RunHooks(self) \o <<"passed">>]
             ELSE [self |-> failed(self, event), ret |-> TRUE,
                   trace |-> <<"passes", "failed">>]

EventFilterCall(self, event) ==
    IF self.passthrough
    THEN [self |-> passed(self, event), ret |-> TRUE,
          trace |-> RunHooks(self) \o <<"passed">>]
    ELSE LET _passes == passes(self, event)
         IN  IF _passes = Abstain
             THEN [self |-> self, ret |-> FALSE, trace |-> <<"passes">>]
             ELSE IF _passes = Accept
             THEN [self |-> passed(self, event), ret |-> TRUE,
                   trace |-> <<"passes">> \o RunHooks(self) \o <<"passed">>]
             ELSE [self |-> failed(self, event), ret |-> FALSE,
                   trace |-> <<"passes", "failed">>]

(***************************************************************************)
(* ObjectFilter.  A collection is a sequence of objects; filtered(event,    *)
(* collection) is the subclass's selection: the event carries, for every    *)
(* selection, the set of objects it keeps.                                  *)
(***************************************************************************)
ObjectFilterInit(pred, count_events, hooks, passthrough, name, count_funcs, lastKey) ==
    [FilterInit("ObjectFilter", hooks, passthrough, name, count_funcs, lastKey)
        EXCEPT !.pred = pred, !.count_events = count_events]

filtered(self, event, collection) ==
    LET keep(o) == o \in event.keep[self.pred]
    IN  SelectSeq(collection, keep)

\* faulty variant of ObjectFilter.__call__: passing grows by the size of the
\* retained collection in both counting modes
ObjectFilterCall_passing_by_size(self, event, collection) ==
    LET s1 == [self EXCEPT
                 !.was_passed = FALSE,
                 !.total = IF self.count_events THEN @ + 1 ELSE @ + Len(collection)]
        coll == IF ~self.passthrough THEN filtered(self, event, collection)
                ELSE collection
        s2 == IF Len(coll) > 0
              THEN [s1 EXCEPT !.was_passed = TRUE, !.passing = @ + Len(coll)]
              ELSE s1
    IN  [self |-> s2, ret |-> coll,
         trace |-> IF ~self.passthrough THEN <<"filtered">> ELSE <<>>]

\* faulty variant of ObjectFilter.__call__: was_passed is not reset at the
\* start of the call
ObjectFilterCall_keeps_was_passed(self, event, collection) ==
    LET s1 == [self EXCEPT
                 !.total = IF self.count_events THEN @ + 1 ELSE @ + Len(collection)]
        coll == IF ~self.passthrough THEN filtered(self, event, collection)
                ELSE collection
        s2 == IF Len(coll) > 0
              THEN [s1 EXCEPT
                      !.was_passed = TRUE,
                      !.passing = IF self.count_events THEN @ + 1 ELSE @ + Len(coll)]
              ELSE s1
    IN  [self |-> s2, ret |-> coll,
         trace |-> IF ~self.passthrough THEN <<"filtered">> ELSE <<>>]

ObjectFilterCall(self, event, collection) ==
    LET s1 == [self EXCEPT
                 !.was_passed = FALSE,
                 !.total = IF self.count_events THEN @ + 1 ELSE @ + Len(collection)]
        coll == IF ~self.passthrough THEN filtered(self, event, collection)
                ELSE collection
        s2 == IF Len(coll) > 0
              THEN [s1 EXCEPT
                      !.was_passed = TRUE,
                      !.passing = IF self.count_events THEN @ + 1 ELSE @ + Len(coll)]
              ELSE s1
    IN  [self |-> s2, ret |-> coll,
         trace |-> IF ~self.passthrough THEN <<"filtered">> ELSE <<>>]

(***************************************************************************)
(* FilterList.  A list is the sequence of its elements.  merge zips the two *)
(* lists (the pairs up to the shorter length), upgrades each raw state      *)
(* mapping to a Filter and appends the sum of each pair; an exception       *)
(* raised by an addition ends the merge.  Both operands are lists here, so  *)
(* the two isinstance checks of the arguments pass.                         *)
(***************************************************************************)
Min(a, b) == IF a < b THEN a ELSE b

\* faulty variant of the upgrade: the Filter is created but the state is not restored
Upgrade_no_setstate(x) == IF x.cls = "dict" THEN [NewFilter EXCEPT !.name = x.name] ELSE x

Upgrade(x) == IF x.cls = "dict" THEN setstate(NewFilter, x) ELSE x

RECURSIVE MergeFrom(_, _, _, _)
MergeFrom(l1, l2, i, filterlist) ==
    IF i > Min(Len(l1), Len(l2)) THEN Return(filterlist)
    ELSE LET s == add(Upgrade(l1[i]), Upgrade(l2[i]))
         IN  IF ~s.ok THEN s
             ELSE MergeFrom(l1, l2, i + 1, Append(filterlist, s.val))

\* faulty variant of merge: the first pair is left out
merge_skips_first(l1, l2) == MergeFrom(l1, l2, 2, <<>>)

merge(l1, l2) == MergeFrom(l1, l2, 1, <<>>)

\* the properties FilterList.total and FilterList.passing, on a list of filters
ListTotal(self) == IF Len(self) > 0 THEN self[1].total ELSE 0

ListPassing(self) == IF Len(self) > 0 THEN self[Len(self)].passing ELSE 0

basic(self) == [i \in 1..Len(self) |-> getstate(self[i])]

(***************************************************************************)
(* Insertion into the list classes.  append is overridden and checks the   *)
(* element; __setitem__ is overridden with the signature (self, filter), so *)
(* the item assignment list[i] = x, which passes the index and the element, *)
(* raises TypeError before the body runs; insert, extend and the            *)
(* constructor are those of the built-in list and check nothing.  A result  *)
(* is the list after the operation, or the exception raised (the list is    *)
(* then as it was).                                                         *)
(***************************************************************************)
ListClasses == {"FilterList", "EventFilterList", "ObjectFilterList"}

\* isinstance(x, cls): EventFilter and ObjectFilter are subclasses of Filter
isinstance(x, cls) ==
    x.cls = cls \/ (cls = "Filter" /\ x.cls \in {"EventFilter", "ObjectFilter"})

FilterList_append(self, filter) ==
    IF ~(isinstance(filter, "Filter") \/ isinstance(filter, "dict"))
    THEN Raise("TypeError")
    ELSE Return(Append(self, filter))

EventFilterList_append(self, filter) ==
    IF ~isinstance(filter, "EventFilter")
    THEN Raise("TypeError")
    ELSE FilterList_append(self, filter)

ObjectFilterList_append(self, filter) ==
    IF ~isinstance(filter, "ObjectFilter")
    THEN Raise("TypeError")
    ELSE FilterList_append(self, filter)

\* self.append(filter) on a list of class cls
append(cls, self, filter) ==
    CASE cls = "FilterList" -> FilterList_append(self, filter)
      [] cls = "EventFilterList" -> EventFilterList_append(self, filter)
      [] cls = "ObjectFilterList" -> ObjectFilterList_append(self, filter)

\* self[i] = filter on a list of any of the three classes
setitem(cls, self, i, filter) == Raise("TypeError")

\* self.insert(i - 1, filter): the element is put at position i
insert(self, i, filter) ==
    Return(SubSeq(self, 1, i - 1) \o <<filter>> \o SubSeq(self, i, Len(self)))

\* self.extend(filters)
extend(self, filters) == Return(self \o filters)

(***************************************************************************)
(* EventFilterList.__call__: the filters are called in list order until one *)
(* returns a false value.  invoked records the calls made, in order: the    *)
(* position called, the outcome the event has for that filter's predicate,  *)
(* the value the filter returned and the trace of the call.                 *)
(***************************************************************************)
RECURSIVE EventListFrom(_, _, _, _)
EventListFrom(self, event, i, invoked) ==
    IF i > Len(self) THEN [list |-> self, ret |-> TRUE, invoked |-> invoked]
    ELSE LET c == EventFilterCall(self[i], event)
             s == [self EXCEPT ![i] = c.self]
             inv == Append(invoked, [i |-> i, out |-> passes(self[i], event),
                                     ret |-> c.ret, trace |-> c.trace])
         IN  IF ~c.ret
             THEN [list |-> s, ret |-> FALSE, invoked |-> inv]
             ELSE EventListFrom(s, event, i + 1, inv)

\* faulty variant of EventFilterList.__call__: every filter is called, whatever
\* the earlier ones returned
RECURSIVE EventListAll(_, _, _, _)
EventListAll(self, event, i, invoked) ==
    IF i > Len(self) THEN [list |-> self, ret |-> TRUE, invoked |-> invoked]
    ELSE LET c == EventFilterCall(self[i], event)
             s == [self EXCEPT ![i] = c.self]
             inv == Append(invoked, [i |-> i, out |-> passes(self[i], event),
                                     ret |-> c.ret, trace |-> c.trace])
             r == EventListAll(s, event, i + 1, inv)
         IN  [r EXCEPT !.ret = (c.ret /\ @)]

EventListCall_no_stop(self, event) == EventListAll(self, event, 1, <<>>)

EventListCall(self, event) == EventListFrom(self, event, 1, <<>>)

(***************************************************************************)
(* ObjectFilterList.__call__: each filter is given the collection returned  *)
(* by the one before it; an empty result returns [] at once.  invoked       *)
(* records the calls made, in order: the position called, the collection    *)
(* passed to the filter and the collection it returned.                     *)
(***************************************************************************)
RECURSIVE ObjectListFrom(_, _, _, _, _)
ObjectListFrom(self, event, passing_objects, i, invoked) ==
    IF i > Len(self)
    THEN [list |-> self, ret |-> passing_objects, invoked |-> invoked]
    ELSE LET c == ObjectFilterCall(self[i], event, passing_objects)
             s == [self EXCEPT ![i] = c.self]
             inv == Append(invoked, [i |-> i, arg |-> passing_objects, ret |-> c.ret])
         IN  IF c.ret = <<>>
             THEN [list |-> s, ret |-> <<>>, invoked |-> inv]
             ELSE ObjectListFrom(s, event, c.ret, i + 1, inv)

\* faulty variant of ObjectFilterList.__call__: an empty result does not end
\* the call
RECURSIVE ObjectListAll(_, _, _, _, _)
ObjectListAll(self, event, passing_objects, i, invoked) ==
    IF i > Len(self)
    THEN [list |-> self, ret |-> passing_objects, invoked |-> invoked]
    ELSE LET c == ObjectFilterCall(self[i], event, passing_objects)
             s == [self EXCEPT ![i] = c.self]
             inv == Append(invoked, [i |-> i, arg |-> passing_objects, ret |-> c.ret])
         IN  ObjectListAll(s, event, c.ret, i + 1, inv)

ObjectListCall_no_stop(self, event, collection) ==
    ObjectListAll(self, event, collection, 1, <<>>)

ObjectListCall(self, event, collection) ==
    ObjectListFrom(self, event, collection, 1, <<>>)

(***************************************************************************)
(* Inputs.                                                                  *)
(***************************************************************************)
Objects == 1..MaxObj
Evens == {o \in Objects : o % 2 = 0}
\* the collections handed to object filters: the first n objects, n = 0..MaxObj
Collections == {[k \in 1..n |-> k] : n \in 0..MaxObj}
CutNames == <<"cut1", "cut2", "cut3", "cut4", "cut5">>

\* the events given to passed / failed: any weight under label "w", and 1
\* under the other labels (a function that counts the events)
FilterEvents == {[cnt |-> [k \in Labels |-> IF k = "w" THEN w ELSE 1]] : w \in Weights}
\* the weights of the events given to event filters
ListCnt == [k \in Labels |-> 2]
\* the events given to an EventFilterList: an outcome for every predicate.
\* One event stands for all the events that agree with it up to their first
\* predicate that does not accept (no list call tells them apart: a filter
\* that ignores such a predicate runs in passthrough mode and ignores an
\* accepting one as well), so the predicates after it are listed as accepting.
ListEvents ==
    {e \in [out : [1..MaxLen -> Outcomes], cnt : {ListCnt}] :
        \A i, j \in 1..MaxLen : i < j /\ e.out[i] # Accept => e.out[j] = Accept}
\* the events given to one EventFilter: an outcome for its predicate
EventFor(self, o) == [out |-> [p \in {self.pred} |-> o], cnt |-> ListCnt]
\* the events given to an ObjectFilterList: the objects every selection keeps
ObjectEvents == [keep : [1..MaxStages -> {{}, Evens}], cnt : {ListCnt}]
\* the events given to one ObjectFilter
ObjectEventFor(self, K) == [keep |-> [p \in {self.pred} |-> K], cnt |-> ListCnt]

DetailMaps == UNION {[K -> {1, 2}] : K \in SUBSET DetailKeys}

\* a Filter as a subclass or __setstate__ leaves it: name, counters, details
FilterWith(name, total, passing, details) ==
    [NewFilter EXCEPT !.name = name, !.total = total, !.passing = passing,
                      !.details = details]

AddOperands ==
    {FilterWith(n, t, p, d) : n \in Names, t \in 0..MaxCount, p \in 0..MaxCount,
                              d \in DetailMaps}

\* same-named operands of a repeated addition
SameNamedOperands ==
    {x \in AddOperands : x.name = "A" /\ x.passing \in {0, x.total}}

\* elements of the lists handed to merge: Filters and raw state mappings
MergeElems ==
    {FilterWith("A", MaxCount, 1, EmptyMap),
     getstate(FilterWith("A", 1, 0, EmptyMap)),
     FilterWith("B", 1, 1, EmptyMap)}
MergeLists == UNION {[1..n -> MergeElems] : n \in 0..MaxLen}

\* the objects handed to the insertion operations: a Filter, an EventFilter,
\* an ObjectFilter, a raw state mapping and an object of another type
InsertElems ==
    {NewFilter,
     EventFilterInit(1, 0, FALSE, None, {}, None),
     ObjectFilterInit(1, FALSE, 0, FALSE, None, {}, None),
     getstate(NewFilter),
     [cls |-> "int"]}
\* the iterables handed to the constructor of a list and to extend
InsertSeqs == UNION {[1..n -> InsertElems] : n \in 0..MaxLen}

NoResult == Raise(None)

(***************************************************************************)
(* Initial states: the driver has constructed the objects it works on; the  *)
(* other variables are unused.                                              *)
(***************************************************************************)
IdleFilter == f = NewFilter /\ calls = <<0, 0>> /\ negSeen = FALSE
IdleEvent == efl = <<>> /\ abstains = <<>>
IdleObject == ofl = <<>>
IdleAdd == left = NewFilter /\ right = NewFilter /\ sum = NoResult
IdleMerge == list1 = <<>> /\ list2 = <<>> /\ merged = NoResult /\ ref = <<>>
IdleInsert == lcls = None
Started == nev = 0 /\ last = [op |-> "init"]

\* a Filter constructed with any name and any count functions; last holds the
\* arguments given to the constructor
InitFilter ==
    /\ driver = "filter"
    /\ \E nm \in Names \cup {None}, cf \in SUBSET Labels :
         \E lk \in (IF cf = {} THEN {None} ELSE cf) :
            /\ f = FilterInit("Filter", 0, FALSE, nm, cf, lk)
            /\ last = [op |-> "init", name |-> nm, count_funcs |-> cf]
    /\ calls = <<0, 0>> /\ negSeen = FALSE
    /\ nev = 0
    /\ IdleEvent /\ IdleObject /\ IdleAdd /\ IdleMerge /\ IdleInsert

\* the EventFilterLists built by appending freshly constructed EventFilters:
\* at most one of them in passthrough mode, all with the same hooks and
\* count functions
NewEventLists ==
    {[i \in 1..MaxLen |-> EventFilterInit(i, IF cf = {} THEN 0 ELSE 1, i = pt,
                                          CutNames[i], cf, "w")] :
        pt \in 0..MaxLen, cf \in {{}, {"w"}}}

InitEvent ==
    /\ driver = "event"
    /\ efl \in NewEventLists
    /\ abstains = [i \in 1..MaxLen |-> 0]
    /\ IdleFilter /\ IdleObject /\ IdleAdd /\ IdleMerge /\ IdleInsert /\ Started

\* the ObjectFilterLists built by appending freshly constructed ObjectFilters:
\* any counting modes, at most one filter in passthrough mode; the first
\* filter is given a hook and a count function, the others none
NewObjectLists ==
    {[i \in 1..MaxStages |->
        ObjectFilterInit(i, ce[i], IF i = 1 THEN 1 ELSE 0, i = pt, CutNames[i],
                         IF i = 1 THEN {"w"} ELSE {}, "w")] :
        ce \in [1..MaxStages -> BOOLEAN], pt \in 0..MaxStages}

InitObject ==
    /\ driver = "object"
    /\ ofl \in NewObjectLists
    /\ IdleFilter /\ IdleEvent /\ IdleAdd /\ IdleMerge /\ IdleInsert /\ Started

InitAdd ==
    /\ driver = "add"
    /\ left \in {x \in AddOperands : x.passing <= x.total}
    /\ right \in {x \in AddOperands : x.passing <= x.total}
    /\ sum = NoResult
    /\ IdleFilter /\ IdleEvent /\ IdleObject /\ IdleMerge /\ IdleInsert /\ Started

InitMerge ==
    /\ driver = "merge"
    /\ list1 \in MergeLists
    /\ list2 \in MergeLists
    /\ merged = NoResult /\ ref = <<>>
    /\ IdleFilter /\ IdleEvent /\ IdleObject /\ IdleAdd /\ IdleInsert /\ Started

\* two workers and a single run, each with its own list built from the same
\* filter sequence
InitSplit ==
    /\ driver = "split"
    /\ ref \in NewEventLists
    /\ list1 = ref /\ list2 = ref
    /\ merged = NoResult
    /\ IdleFilter /\ IdleEvent /\ IdleObject /\ IdleAdd /\ IdleInsert /\ Started

\* three same-named filters a, b, c = list1[1], list1[2], list1[3] to be added
\* up in different orders
InitSum ==
    /\ driver = "sum"
    /\ list1 \in [1..3 -> SameNamedOperands]
    /\ list2 = <<>> /\ merged = NoResult /\ ref = <<>>
    /\ IdleFilter /\ IdleEvent /\ IdleObject /\ IdleAdd /\ IdleInsert /\ Started

\* a list of one of the three classes constructed from an iterable
InitInsert ==
    /\ driver = "insert"
    /\ lcls \in ListClasses
    /\ list1 \in InsertSeqs
    /\ list2 = <<>> /\ merged = NoResult /\ ref = <<>>
    /\ IdleFilter /\ IdleEvent /\ IdleObject /\ IdleAdd /\ Started

(***************************************************************************)
(* Actions: one per call a driver makes.                                    *)
(***************************************************************************)
Passed(e) ==
    /\ driver = "filter"
    /\ f.total < MaxCalls
    /\ f' = passed(f, e)
    /\ calls' = <<calls[1] + 1, calls[2]>>
    /\ negSeen' = (negSeen \/ \E k \in f.count_funcs : e.cnt[k] < 0)
    /\ last' = [op |-> "passed"]
    /\ UNCHANGED <<efl, ofl, left, right, sum, list1, list2, merged, ref,
                   driver, nev, abstains, lcls>>

Failed(e) ==
    /\ driver = "filter"
    /\ f.total < MaxCalls
    /\ f' = failed(f, e)
    /\ calls' = <<calls[1], calls[2] + 1>>
    /\ negSeen' = (negSeen \/ \E k \in f.count_funcs : e.cnt[k] < 0)
    /\ last' = [op |-> "failed"]
    /\ UNCHANGED <<efl, ofl, left, right, sum, list1, list2, merged, ref,
                   driver, nev, abstains, lcls>>

\* state = f.__getstate__(); g = Filter(); g.__setstate__(state)
Restore ==
    /\ driver = "filter"
    /\ last' = [op |-> "restore", state |-> getstate(f),
                restored |-> setstate(NewFilter, getstate(f))]
    /\ UNCHANGED <<f, calls, negSeen, efl, ofl, left, right, sum, list1, list2,
                   merged, ref, driver, nev, abstains, lcls>>

\* efl[i](event)
CallEventFilter(i, e) ==
    /\ driver = "event"
    /\ nev < MaxEvents
    /\ nev' = nev + 1
    /\ LET c == EventFilterCall(efl[i], e)
       IN  /\ efl' = [efl EXCEPT ![i] = c.self]
           /\ abstains' = [abstains EXCEPT
                             ![i] = IF c.trace = <<"passes">> THEN @ + 1 ELSE @]
           /\ last' = [op |-> "efilter", i |-> i, out |-> passes(efl[i], e),
                       cnt |-> e.cnt, ret |-> c.ret, trace |-> c.trace]
    /\ UNCHANGED <<f, calls, negSeen, ofl, left, right, sum, list1, list2,
                   merged, ref, driver, lcls>>

\* efl(event)
CallEventList(e) ==
    /\ driver = "event"
    /\ nev < MaxEvents
    /\ nev' = nev + 1
    /\ LET c == EventListCall(efl, e)
       IN  /\ efl' = c.list
           /\ abstains' = [i \in 1..Len(efl) |->
                             IF \E j \in 1..Len(c.invoked) :
                                   c.invoked[j].i = i /\ c.invoked[j].trace = <<"passes">>
                             THEN abstains[i] + 1 ELSE abstains[i]]
           /\ last' = [op |-> "elist", cnt |-> e.cnt, ret |-> c.ret,
                       invoked |-> c.invoked]
    /\ UNCHANGED <<f, calls, negSeen, ofl, left, right, sum, list1, list2,
                   merged, ref, driver, lcls>>

\* ofl[i](event, collection)
CallObjectFilter(i, e, coll) ==
    /\ driver = "object"
    /\ nev < MaxEvents
    /\ nev' = nev + 1
    /\ LET c == ObjectFilterCall(ofl[i], e, coll)
       IN  /\ ofl' = [ofl EXCEPT ![i] = c.self]
           /\ last' = [op |-> "ofilter", i |-> i, keep |-> e.keep[ofl[i].pred],
                       cnt |-> e.cnt, arg |-> coll, ret |-> c.ret, trace |-> c.trace]
    /\ UNCHANGED <<f, calls, negSeen, efl, left, right, sum, list1, list2,
                   merged, ref, driver, abstains, lcls>>

\* ofl(event, collection)
CallObjectList(e, coll) ==
    /\ driver = "object"
    /\ nev < MaxEvents
    /\ nev' = nev + 1
    /\ LET c == ObjectListCall(ofl, e, coll)
       IN  /\ ofl' = c.list
           /\ last' = [op |-> "olist", arg |-> coll, ret |-> c.ret,
                       invoked |-> c.invoked]
    /\ UNCHANGED <<f, calls, negSeen, efl, left, right, sum, list1, list2,
                   merged, ref, driver, abstains, lcls>>

\* Filter.add(left, right)
DoAdd ==
    /\ driver = "add"
    /\ sum' = add(left, right)
    /\ last' = [op |-> "add"]
    /\ UNCHANGED <<f, calls, negSeen, efl, ofl, left, right, list1, list2,
                   merged, ref, driver, nev, abstains, lcls>>

\* FilterList.merge(list1, list2)
DoMerge ==
    /\ driver \in {"merge", "split"}
    /\ merged' = merge(list1, list2)
    /\ last' = [op |-> "merge"]
    /\ UNCHANGED <<f, calls, negSeen, efl, ofl, left, right, sum, list1, list2,
                   ref, driver, nev, abstains, lcls>>

\* one event of the input: the single run calls its list on it, and so does
\* the worker whose range holds the event.  The workers' results are merged
\* after the processing, never during it.
SplitCall(e, w) ==
    /\ driver = "split"
    /\ merged = NoResult
    /\ \A i \in 1..Len(list1) : list1[i].cls # "dict"
    /\ \A i \in 1..Len(list2) : list2[i].cls # "dict"
    /\ nev < MaxEvents
    /\ nev' = nev + 1
    /\ ref' = EventListCall(ref, e).list
    /\ IF w = 1
       THEN list1' = EventListCall(list1, e).list /\ list2' = list2
       ELSE list2' = EventListCall(list2, e).list /\ list1' = list1
    /\ last' = [op |-> "split", w |-> w]
    /\ UNCHANGED <<f, calls, negSeen, efl, ofl, left, right, sum, merged,
                   driver, abstains, lcls>>

\* a worker hands over list.basic(): the state mappings of its filters
ToBasic(w) ==
    /\ driver \in {"merge", "split"}
    /\ merged = NoResult
    /\ IF w = 1
       THEN /\ \A i \in 1..Len(list1) : list1[i].cls # "dict"
            /\ list1' = basic(list1) /\ list2' = list2
       ELSE /\ \A i \in 1..Len(list2) : list2[i].cls # "dict"
            /\ list2' = basic(list2) /\ list1' = list1
    /\ last' = [op |-> "basic", w |-> w]
    /\ UNCHANGED <<f, calls, negSeen, efl, ofl, left, right, sum, merged, ref,
                   driver, nev, abstains, lcls>>

\* add(add(a, b), c), add(a, add(b, c)), add(a, b) and add(b, a)
DoSum ==
    /\ driver = "sum"
    /\ LET a == Return(list1[1])
           b == Return(list1[2])
           c == Return(list1[3])
       IN  last' = [op |-> "sum",
                    ab_c |-> add_results(add_results(a, b), c),
                    a_bc |-> add_results(a, add_results(b, c)),
                    ab |-> add_results(a, b),
                    ba |-> add_results(b, a)]
    /\ UNCHANGED <<f, calls, negSeen, efl, abstains, ofl, left, right, sum, list1,
                   list2, merged, ref, lcls, driver, nev>>

\* the outcome of an insertion operation: list1 becomes the list returned, or
\* stays as it is when the operation raised
Inserted(op, elems, r) ==
    /\ driver = "insert"
    /\ list1' = (IF r.ok THEN r.val ELSE list1)
    /\ last' = [op |-> op, elems |-> {x.cls : x \in elems}, ok |-> r.ok,
                err |-> (IF r.ok THEN None ELSE r.err), before |-> list1]
    /\ UNCHANGED <<f, calls, negSeen, efl, abstains, ofl, left, right, sum, list2,
                   merged, ref, lcls, driver, nev>>

\* list1.append(x)
DoAppend(x) ==
    /\ Len(list1) < MaxLen
    /\ Inserted("append", {x}, append(lcls, list1, x))

\* list1[i - 1] = x
DoSetItem(i, x) == Inserted("setitem", {x}, setitem(lcls, list1, i, x))

\* list1.insert(i - 1, x)
DoInsert(i, x) ==
    /\ Len(list1) < MaxLen
    /\ Inserted("insert", {x}, insert(list1, i, x))

\* list1.extend(xs)
DoExtend(xs) ==
    /\ Len(list1) + Len(xs) <= MaxLen
    /\ Inserted("extend", {xs[j] : j \in 1..Len(xs)}, extend(list1, xs))

(***************************************************************************)
(* Specifications.  Spec is the module under any of the drivers that call  *)
(* filters or combine their counters; the others are the single drivers.    *)
(***************************************************************************)
NextFilter == (\E e \in FilterEvents : Passed(e) \/ Failed(e)) \/ Restore

NextEvent ==
    \/ \E e \in ListEvents : CallEventList(e)
    \/ \E i \in 1..Len(efl), o \in Outcomes : CallEventFilter(i, EventFor(efl[i], o))

NextObject ==
    \/ \E e \in ObjectEvents, coll \in Collections : CallObjectList(e, coll)
    \/ \E i \in 1..Len(ofl), K \in {{}, Evens}, coll \in Collections :
          CallObjectFilter(i, ObjectEventFor(ofl[i], K), coll)

NextAdd == DoAdd

NextMerge == DoMerge \/ \E w \in {1, 2} : ToBasic(w)

NextSplit ==
    \/ \E e \in ListEvents, w \in {1, 2} : SplitCall(e, w)
    \/ \E w \in {1, 2} : ToBasic(w)
    \/ DoMerge

SpecFilter == InitFilter /\ [][NextFilter]_vars
SpecEvent == InitEvent /\ [][NextEvent]_vars
SpecObject == InitObject /\ [][NextObject]_vars
SpecAdd == InitAdd /\ [][NextAdd]_vars
SpecMerge == InitMerge /\ [][NextMerge]_vars
SpecSplit == InitSplit /\ [][NextSplit]_vars
\* direct and list calls of event filters and of object filters
SpecCalls == (InitEvent \/ InitObject) /\ [][NextEvent \/ NextObject]_vars

NextInsert ==
    \/ \E x \in InsertElems : DoAppend(x)
    \/ \E i \in 1..Len(list1), x \in InsertElems : DoSetItem(i, x)
    \/ \E i \in 1..(Len(list1) + 1), x \in InsertElems : DoInsert(i, x)
    \/ \E xs \in InsertSeqs : DoExtend(xs)

SpecInsert == InitInsert /\ [][NextInsert]_vars

SpecSum == InitSum /\ [][DoSum]_vars

\* an EventFilterList of fresh filters that are called through the list only
NextChain == \E e \in ListEvents : CallEventList(e)

SpecChain == InitEvent /\ [][NextChain]_vars

Init == InitFilter \/ InitEvent \/ InitObject \/ InitAdd \/ InitMerge \/ InitSplit

Next == NextFilter \/ NextEvent \/ NextObject \/ NextAdd \/ NextSplit

Spec == Init /\ [][Next]_vars

(***************************************************************************)
(* Properties.                                                              *)
(***************************************************************************)
Range(l) == {l[i] : i \in 1..Len(l)}

\* C1: after any sequence of passed / failed calls on a freshly constructed
\* Filter, total is the number of calls made and passing is the number of
\* passed calls among them.
C1_CountsMatchCalls ==
    driver = "filter" => f.total = calls[1] + calls[2] /\ f.passing = calls[1]

C1_Witness ==
    driver = "filter" /\ calls[1] >= 1 /\ calls[2] >= 1 /\ f.total = MaxCalls

\* C2: passing <= total for every filter of every reachable state: the
\* filters called directly or through their lists, the operands given to
\* add and merge, and the filters add and merge return.
AllFilters ==
    {f, left, right} \cup Range(efl) \cup Range(ofl) \cup Range(ref)
        \cup Range(list1) \cup Range(list2)
        \cup (IF sum.ok THEN {sum.val} ELSE {})
        \cup (IF merged.ok THEN Range(merged.val) ELSE {})

C2_PassingAtMostTotal == \A x \in AllFilters : x.passing <= x.total

C2_Witness ==
    /\ driver = "object"
    /\ last.op = "olist"
    /\ \E i \in 1..Len(ofl) :
          /\ ~ofl[i].count_events
          /\ 0 < ofl[i].passing /\ ofl[i].passing < ofl[i].total

\* C3 as stated: the passing tally of every label is at most its total
\* tally, whatever weights the count functions return.
C3_TalliesOrdered ==
    \A k \in DOMAIN f.count_funcs_total :
        f.count_funcs_passing[k] <= f.count_funcs_total[k]

\* C3 amended: the passing tally of every label is at most its total tally
\* as long as no count function has returned a negative weight.
C3_TalliesOrderedNonNegative == ~negSeen => C3_TalliesOrdered

C3_Witness ==
    /\ ~negSeen
    /\ \E k \in DOMAIN f.count_funcs_total :
          /\ 0 < f.count_funcs_passing[k]
          /\ f.count_funcs_passing[k] < f.count_funcs_total[k]

\* C4 as stated: add raises the name-mismatch error when the names differ,
\* and for every pair with equal names returns a Filter carrying that name
\* and the sums of the two totals and of the two passing counts.
C4_AddSumsEveryPair ==
    last.op = "add" =>
        IF left.name # right.name
        THEN ~sum.ok /\ sum.err = "ValueError"
        ELSE /\ sum.ok
             /\ sum.val.cls = "Filter"
             /\ sum.val.name = left.name
             /\ sum.val.total = left.total + right.total
             /\ sum.val.passing = left.passing + right.passing

\* C4 amended: add raises the name-mismatch error when the names differ,
\* and for every pair with equal names in which every key of left.details is
\* a key of right.details it returns a Filter carrying that name and the
\* sums of the two totals and of the two passing counts.
C4_AddSums ==
    last.op = "add" =>
        IF left.name # right.name
        THEN ~sum.ok /\ sum.err = "ValueError"
        ELSE (DOMAIN left.details \subseteq DOMAIN right.details) =>
             /\ sum.ok
             /\ sum.val.cls = "Filter"
             /\ sum.val.name = left.name
             /\ sum.val.total = left.total + right.total
             /\ sum.val.passing = left.passing + right.passing

C4_Witness ==
    /\ last.op = "add"
    /\ sum.ok
    /\ left.passing > 0 /\ right.passing > 0
    /\ left.total # right.total
    /\ DOMAIN left.details # {}

\* C5: on two same-named filters add raises KeyError whenever the key sets
\* of the two details mappings differ, in either direction; it returns a
\* result only when they are identical, and then the result's details are
\* the key-by-key sums.
C5_AddRequiresSameKeys ==
    (last.op = "add" /\ left.name = right.name) =>
        IF DOMAIN left.details # DOMAIN right.details
        THEN ~sum.ok /\ sum.err = "KeyError"
        ELSE /\ sum.ok
             /\ DOMAIN sum.val.details = DOMAIN left.details
             /\ \A k \in DOMAIN left.details :
                   sum.val.details[k] = left.details[k] + right.details[k]

\* C6: whatever the split of the events between the two workers, merging
\* the workers' lists gives, at every position, the total and the passing
\* count of the single run over all the events.
C6_MergeOfSplitIsSingleRun ==
    (driver = "split" /\ last.op = "merge") =>
        /\ merged.ok
        /\ Len(merged.val) = Len(ref)
        /\ \A i \in 1..Len(ref) :
              /\ merged.val[i].total = ref[i].total
              /\ merged.val[i].passing = ref[i].passing

C6_Witness ==
    /\ driver = "split"
    /\ last.op = "merge"
    /\ nev = MaxEvents
    /\ list1[1].total > 0 /\ list2[1].total > 0
    /\ list1[1].cls = "dict"
    /\ \E i \in 1..Len(ref) : 0 < ref[i].passing /\ ref[i].passing < ref[i].total

\* C7: merge returns the list whose element at each position is the sum of
\* the two elements at that position, raw state mappings taken as the
\* Filters they describe; its length is the shorter operand's; for two
\* 3-element lists its total is the summed total of the first position and
\* its passing is the summed passing of the third.
C7_AsFilter(x) ==
    IF x.cls = "dict"
    THEN [NewFilter EXCEPT !.name = x.name, !.total = x.total,
                           !.passing = x.passing, !.details = x.details,
                           !.count_funcs_total = x.count_funcs_total,
                           !.count_funcs_passing = x.count_funcs_passing]
    ELSE x

C7_MergeIsPairwiseAdd ==
    (driver = "merge" /\ last.op = "merge") =>
        LET n == IF Len(list1) < Len(list2) THEN Len(list1) ELSE Len(list2)
            pair(i) == add(C7_AsFilter(list1[i]), C7_AsFilter(list2[i]))
        IN  IF \A i \in 1..n : pair(i).ok
            THEN /\ merged.ok
                 /\ Len(merged.val) = n
                 /\ \A i \in 1..n : merged.val[i] = pair(i).val
                 /\ (Len(list1) = 3 /\ Len(list2) = 3) =>
                       /\ ListTotal(merged.val) = list1[1].total + list2[1].total
                       /\ ListPassing(merged.val) = list1[3].passing + list2[3].passing
            ELSE ~merged.ok

C7_Witness ==
    /\ driver = "merge"
    /\ last.op = "merge"
    /\ merged.ok
    /\ Len(list1) = 3 /\ Len(list2) = 3
    /\ list1[1].cls = "dict" /\ list2[1].cls = "Filter"
    /\ ListTotal(merged.val) # ListPassing(merged.val)

\* C8: a call of an EventFilterList calls its filters in list order, returns
\* false at the first filter that returns false (its predicate rejected or
\* abstained) and true only if every filter returned true; the filters after
\* the one that stopped the call are not called and are left unchanged.
C8_ShortCircuit ==
    [][last'.op = "elist" =>
        LET inv == last'.invoked
            k == Len(inv)
        IN  /\ \A j \in 1..k : inv[j].i = j
            /\ \A j \in 1..k :
                  inv[j].ret = (efl[j].passthrough \/ inv[j].out = Accept)
            /\ \A j \in 1..(k - 1) : inv[j].ret
            /\ last'.ret = (\A j \in 1..k : inv[j].ret)
            /\ last'.ret => k = Len(efl)
            /\ \A j \in (k + 1)..Len(efl) : efl'[j] = efl[j]
    ]_vars

C8_Witness ==
    /\ last.op = "elist"
    /\ ~last.ret
    /\ Len(last.invoked) = 2
    /\ last.invoked[1].ret
    /\ last.invoked[2].out = Reject
    /\ Len(efl) > 2
    /\ efl[1].total > 0 /\ efl[3].total = 0

\* C9: one call of an EventFilter that is not in passthrough mode records
\* passed and returns true when the predicate accepts, records failed and
\* returns false when it rejects, and returns false leaving total, passing
\* and the count-function tallies unchanged when it abstains; in passthrough
\* mode the predicate is not evaluated, passed is recorded and true returned.
C9_Counters(a, b, dt, dp) ==
    b.total = a.total + dt /\ b.passing = a.passing + dp

C9_OutcomeMapping ==
    [][last'.op = "efilter" =>
        LET a == efl[last'.i]
            b == efl'[last'.i]
            tr == last'.trace
            called(x) == \E j \in 1..Len(tr) : tr[j] = x
        IN  IF a.passthrough
            THEN ~called("passes") /\ called("passed") /\ ~called("failed")
                 /\ C9_Counters(a, b, 1, 1) /\ last'.ret
            ELSE /\ called("passes")
                 /\ last'.out = Accept =>
                       /\ called("passed") /\ ~called("failed")
                       /\ C9_Counters(a, b, 1, 1) /\ last'.ret
                 /\ last'.out = Reject =>
                       /\ called("failed") /\ ~called("passed")
                       /\ C9_Counters(a, b, 1, 0) /\ ~last'.ret
                 /\ last'.out = Abstain =>
                       /\ ~called("failed") /\ ~called("passed")
                       /\ C9_Counters(a, b, 0, 0) /\ ~last'.ret
                       /\ b.count_funcs_total = a.count_funcs_total
                       /\ b.count_funcs_passing = a.count_funcs_passing
    ]_vars

C9_Witness ==
    /\ last.op = "efilter"
    /\ last.out = Abstain
    /\ ~efl[last.i].passthrough
    /\ efl[last.i].count_funcs # {}
    /\ efl[last.i].passing > 0

\* C10: a call of an ObjectFilterList gives each filter the collection the
\* filter before it returned, in list order, and returns what the last
\* filter returned; when a filter returns an empty collection the call
\* returns an empty collection at once and the later filters are not called
\* and are left unchanged, whatever their counting modes.
C10_Chain ==
    [][last'.op = "olist" =>
        LET inv == last'.invoked
            k == Len(inv)
        IN  /\ k >= 1
            /\ \A j \in 1..k : inv[j].i = j
            /\ inv[1].arg = last'.arg
            /\ \A j \in 2..k : inv[j].arg = inv[j - 1].ret
            /\ \A j \in 1..(k - 1) : inv[j].ret # <<>>
            /\ last'.ret = inv[k].ret
            /\ inv[k].ret # <<>> => k = Len(ofl)
            /\ \A j \in (k + 1)..Len(ofl) : ofl'[j] = ofl[j]
    ]_vars

C10_Witness ==
    /\ last.op = "olist"
    /\ Len(last.invoked) = 1
    /\ last.arg # <<>>
    /\ last.ret = <<>>
    /\ Len(ofl) > 1
    /\ ofl[2].count_events /\ ofl[2].total = 0
    /\ ofl[1].total > 0

\* C11: an ObjectFilter invocation in event-count mode adds exactly 1 to
\* total and 1 to passing iff the retained collection is non-empty; in
\* object-count mode it adds the size of the input collection to total and
\* the size of the retained collection to passing.  After the call
\* was_passed is true iff the retained collection is non-empty, and the
\* retained collection is what the call returns.
C11_CountingModes ==
    [][last'.op = "ofilter" =>
        LET a == ofl[last'.i]
            b == ofl'[last'.i]
            arg == last'.arg
            kept(o) == o \in last'.keep
            retained == IF a.passthrough THEN arg ELSE SelectSeq(arg, kept)
        IN  /\ last'.ret = retained
            /\ b.was_passed = (retained # <<>>)
            /\ IF a.count_events
               THEN /\ b.total = a.total + 1
                    /\ b.passing = a.passing + (IF retained # <<>> THEN 1 ELSE 0)
               ELSE /\ b.total = a.total + Len(arg)
                    /\ b.passing = a.passing + Len(retained)]_vars

\* an object-count filter that has been called twice, the last time keeping a
\* proper non-empty part of a collection
C11_Witness ==
    /\ driver = "object"
    /\ last.op = "ofilter"
    /\ ~ofl[last.i].count_events
    /\ last.ret # <<>>
    /\ Len(last.ret) < Len(last.arg)
    /\ ofl[last.i].was_passed
    /\ ofl[last.i].total > Len(last.arg)

\* C12: restoring a freshly constructed Filter from the state mapping of a
\* filter f gives a filter with f's name, total, passing, details,
\* count_funcs_total and count_funcs_passing, with no count functions, and
\* whose own state mapping equals f's; the mapping has exactly those six keys.
StateKeys ==
    {"name", "total", "passing", "details", "count_funcs_total", "count_funcs_passing"}

C12_RoundTrip ==
    last.op = "restore" =>
        LET g == last.restored
        IN  /\ DOMAIN last.state \ {"cls"} = StateKeys
            /\ \A k \in StateKeys : last.state[k] = f[k]
            /\ g.name = f.name
            /\ g.total = f.total
            /\ g.passing = f.passing
            /\ g.details = f.details
            /\ g.count_funcs_total = f.count_funcs_total
            /\ g.count_funcs_passing = f.count_funcs_passing
            /\ g.count_funcs = {}
            /\ getstate(g) = last.state

\* a filter with count functions and non-zero tallies has been saved and
\* restored after passed and failed calls
C12_Witness ==
    /\ driver = "filter"
    /\ last.op = "restore"
    /\ f.count_funcs # {}
    /\ calls[1] >= 1 /\ calls[2] >= 1
    /\ \E k \in f.count_funcs : f.count_funcs_total[k] # f.count_funcs_passing[k]
    /\ last.restored.count_funcs_total = f.count_funcs_total

\* the number of hook invocations in the trace of a call
HookCalls(trace) == Cardinality({j \in 1..Len(trace) : trace[j] = "hook"})

\* C13: every registered hook is invoked exactly once per passing event of
\* an EventFilter and once per passing collection of an ObjectFilter (one
\* whose retained collection is non-empty), before the counters are updated,
\* and never for a rejected or abstained event or an empty retained
\* collection.
C13_HooksRunOncePerPass ==
    /\ last.op = "efilter" =>
          /\ HookCalls(last.trace) = (IF last.ret THEN efl[last.i].hooks ELSE 0)
          /\ \A j, k \in 1..Len(last.trace) :
                last.trace[j] = "hook" /\ last.trace[k] \in {"passed", "failed"} => j < k
    /\ last.op = "ofilter" =>
          HookCalls(last.trace) = (IF last.ret # <<>> THEN ofl[last.i].hooks ELSE 0)

\* C14 as stated: each registered count function is invoked on every event a
\* filter is called with, whatever the outcome: its result is added to
\* count_funcs_total on every call and to count_funcs_passing exactly on the
\* passing ones, for EventFilter calls (accept, reject, abstain, passthrough)
\* and for ObjectFilter calls.
C14_TalliedOnEveryCall ==
    [][/\ last'.op = "efilter" =>
            LET a == efl[last'.i]
                b == efl'[last'.i]
            IN  \A k \in a.count_funcs :
                  /\ b.count_funcs_total[k] = a.count_funcs_total[k] + last'.cnt[k]
                  /\ b.count_funcs_passing[k] =
                        a.count_funcs_passing[k] + (IF last'.ret THEN last'.cnt[k] ELSE 0)
       /\ last'.op = "ofilter" =>
            LET a == ofl[last'.i]
                b == ofl'[last'.i]
            IN  \A k \in a.count_funcs :
                  /\ b.count_funcs_total[k] = a.count_funcs_total[k] + last'.cnt[k]
                  /\ b.count_funcs_passing[k] =
                        a.count_funcs_passing[k]
                            + (IF last'.ret # <<>> THEN last'.cnt[k] ELSE 0)]_vars

\* C14, amended: the count functions are invoked exactly on the events
\* recorded through passed or failed.  An EventFilter call adds the result to
\* count_funcs_total on accept, reject and passthrough and to
\* count_funcs_passing on accept and passthrough; an abstained event and an
\* ObjectFilter call invoke no count function and leave both tallies as they
\* were.
C14_TalliedWhenRecorded ==
    [][/\ last'.op = "efilter" =>
            LET a == efl[last'.i]
                b == efl'[last'.i]
                recorded == \E j \in 1..Len(last'.trace) :
                                last'.trace[j] \in {"passed", "failed"}
            IN  /\ recorded = (a.passthrough \/ last'.out # Abstain)
                /\ \A k \in a.count_funcs :
                      /\ b.count_funcs_total[k] =
                            a.count_funcs_total[k] + (IF recorded THEN last'.cnt[k] ELSE 0)
                      /\ b.count_funcs_passing[k] =
                            a.count_funcs_passing[k]
                                + (IF last'.ret THEN last'.cnt[k] ELSE 0)
       /\ last'.op = "ofilter" =>
            LET a == ofl[last'.i]
                b == ofl'[last'.i]
            IN  /\ \A j \in 1..Len(last'.trace) : last'.trace[j] \notin {"passed", "failed"}
                /\ b.count_funcs_total = a.count_funcs_total
                /\ b.count_funcs_passing = a.count_funcs_passing]_vars

\* a filter with a count function has abstained on an event after it
\* accepted one
C14_Witness ==
    /\ driver = "event"
    /\ last.op = "efilter"
    /\ last.out = Abstain
    /\ ~efl[last.i].passthrough
    /\ efl[last.i].count_funcs # {}
    /\ \E k \in efl[last.i].count_funcs :
          efl[last.i].count_funcs_passing[k] = last.cnt[k] /\ last.cnt[k] # 0

\* the elements a list of class cls is meant to hold
Allowed(cls, x) ==
    CASE cls = "FilterList" -> isinstance(x, "Filter") \/ isinstance(x, "dict")
      [] cls = "EventFilterList" -> isinstance(x, "EventFilter")
      [] cls = "ObjectFilterList" -> isinstance(x, "ObjectFilter")

\* C15: after any sequence of insertion operations (construction from an
\* iterable, append, item assignment, insert, extend) every element of a
\* FilterList is a Filter or a raw state mapping, every element of an
\* EventFilterList is an EventFilter and every element of an
\* ObjectFilterList is an ObjectFilter; an insertion of any other kind of
\* element fails with TypeError and leaves the list unchanged.
C15_ElementsTypeChecked ==
    driver = "insert" =>
        /\ \A i \in 1..Len(list1) : Allowed(lcls, list1[i])
        /\ last.op \in {"append", "setitem", "insert", "extend"}
             /\ (\E x \in InsertElems : x.cls \in last.elems /\ ~Allowed(lcls, x))
           => ~last.ok /\ last.err = "TypeError" /\ list1 = last.before

\* two additions have the same outcome: both raise, or both return filters
\* with equal total and passing
SameCounters(r1, r2) ==
    /\ r1.ok = r2.ok
    /\ r1.ok => r1.val.total = r2.val.total /\ r1.val.passing = r2.val.passing

\* C16: Filter.add is associative and commutative on counters for
\* same-named filters a, b, c: add(add(a, b), c) and add(a, add(b, c)) have
\* equal total and passing, and add(a, b) and add(b, a) have equal total,
\* passing and details.
C16_AddAssociativeCommutative ==
    last.op = "sum" =>
        /\ SameCounters(last.ab_c, last.a_bc)
        /\ SameCounters(last.ab, last.ba)
        /\ last.ab.ok => last.ab.val.details = last.ba.val.details

\* C17: Filter.add sums the weighted tallies as it sums the plain counters:
\* for two same-named filters whose count_funcs_total and
\* count_funcs_passing carry label k, the result has count_funcs_total[k] ==
\* left.count_funcs_total[k] + right.count_funcs_total[k], and likewise for
\* count_funcs_passing[k], so the weighted tallies survive FilterList.merge.
C17_AddSumsTallies ==
    (driver = "split" /\ merged.ok) =>
        \A i \in 1..Len(merged.val) :
            LET l == Upgrade(list1[i])
                r == Upgrade(list2[i])
                s == merged.val[i]
            IN  /\ \A k \in DOMAIN l.count_funcs_total \cap DOMAIN r.count_funcs_total :
                      /\ k \in DOMAIN s.count_funcs_total
                      /\ s.count_funcs_total[k] =
                            l.count_funcs_total[k] + r.count_funcs_total[k]
                /\ \A k \in DOMAIN l.count_funcs_passing \cap DOMAIN r.count_funcs_passing :
                      /\ k \in DOMAIN s.count_funcs_passing
                      /\ s.count_funcs_passing[k] =
                            l.count_funcs_passing[k] + r.count_funcs_passing[k]

\* C18: was_passed always reflects the most recent evaluation: after every
\* EventFilter call (accept, reject, abstain or passthrough) was_passed
\* equals the value the call returned, also when an abstained event follows
\* an accepted one.
C18_WasPassedIsLastReturn ==
    /\ last.op = "efilter" => efl[last.i].was_passed = last.ret
    /\ last.op = "elist" =>
          \A j \in 1..Len(last.invoked) :
              efl[last.invoked[j].i].was_passed = last.invoked[j].ret

\* C19 as stated: for an EventFilterList of fresh filters called through the
\* list only, after any sequence of list calls (accept, reject, abstain,
\* passthrough in any mix) every adjacent pair satisfies
\* list[i+1].total = list[i].passing, hence passing is non-increasing along
\* the list and list.passing <= list.total.
C19_NextTotalIsPassing ==
    driver = "event" =>
        /\ \A i \in 1..(Len(efl) - 1) :
              /\ efl[i + 1].total = efl[i].passing
              /\ efl[i + 1].passing <= efl[i].passing
        /\ ListPassing(efl) <= ListTotal(efl)

\* C19, amended: every adjacent pair satisfies list[i+1].total =
\* list[i].passing minus the number of events filter i+1 has abstained on,
\* so list[i+1].total <= list[i].passing, with equality for a filter that
\* never abstained; passing is non-increasing along the list and
\* list.passing <= list.total.
C19_NextTotalIsPassingLessAbstentions ==
    driver = "event" =>
        /\ \A i \in 1..(Len(efl) - 1) :
              /\ efl[i + 1].total + abstains[i + 1] = efl[i].passing
              /\ efl[i + 1].total <= efl[i].passing
              /\ efl[i + 1].passing <= efl[i].passing
        /\ ListPassing(efl) <= ListTotal(efl)

\* the second filter has abstained on an event the first one passed, and the
\* last filter has counted an event
C19_Witness ==
    /\ driver = "event"
    /\ last.op = "elist"
    /\ abstains[2] >= 1
    /\ efl[2].total < efl[1].passing
    /\ efl[Len(efl)].total >= 1

\* C20: a Filter constructed with an explicit name n has name = n, and one
\* constructed without a name has name = the class name, whether or not
\* count functions are supplied (registering count functions never changes
\* the name); every supplied label starts with count_funcs_total and
\* count_funcs_passing equal to 0.
C20_NameAsGiven ==
    (driver = "filter" /\ last.op = "init") =>
        /\ f.name = (IF last.name = None THEN "Filter" ELSE last.name)
        /\ DOMAIN f.count_funcs_total = last.count_funcs
        /\ DOMAIN f.count_funcs_passing = last.count_funcs
        /\ \A k \in last.count_funcs :
              f.count_funcs_total[k] = 0 /\ f.count_funcs_passing[k] = 0

====
